---- MODULE Spec2Model ----
(***************************************************************************)
(* Navigation & Discovery session of src/App.tsx.                          *)
(*                                                                         *)
(* src/App.tsx holds two App components.  variant = 1 is the first         *)
(* component (lines 87-470, no cache), variant = 2 the second (lines       *)
(* 565-1109, with searchCache, selectedPoint and followUser).  The variant *)
(* is fixed by Init and never changes.                                     *)
(*                                                                         *)
(* Numbers: a coordinate is an integer count of micro-degrees (1e-6        *)
(* degree), so 0.00005 is 50, 0.000005 is 5 and toFixed(4) rounds to the   *)
(* nearest 100.  A string that the code trims, lower-cases or tests for    *)
(* emptiness is a sequence of one-character strings.  An optional value    *)
(* (null, undefined, a missing JSON field) is <<>>, a present one <<v>>.   *)
(*                                                                         *)
(* Every handler is an operator from the session record to the session     *)
(* record, written in the order of the handler's statements; an action     *)
(* commits the record a handler returns.  An await is a task in `pending`; *)
(* the continuation after the await is the matching response action.       *)
(***************************************************************************)
EXTENDS Integers, Sequences, FiniteSets, TLC

VARIABLES
    variant,           \* 1: first App component, 2: second App component
    currentLocation,   \* useState<Location | null>
    mapCenter,         \* useState<Location | undefined>
    trackingPath,      \* useState<TrackingPath[]>
    businesses,        \* useState<BusinessPoint[]>
    districts,         \* useState<District[]>
    cityPopulation,    \* useState<string>
    cityName,          \* useState<string>
    isLoading,         \* useState(false)
    isDetecting,       \* useState(false)
    isNavigating,      \* useState(false)
    activeNavigation,  \* useState<ActiveNavigation | null>
    selectedPoint,     \* useState<any>(null), second component only
    carRotation,       \* useState(0)
    followUser,        \* useState(false), second component only
    searchCache,       \* module-level Map, second component only
    pending,           \* the awaits in flight, one task per call not yet answered
    now,               \* the latest value Date.now() returned
    hist               \* history of the run: calls issued, writers, uncaught errors

vars == << variant, currentLocation, mapCenter, trackingPath, businesses, districts,
           cityPopulation, cityName, isLoading, isDetecting, isNavigating,
           activeNavigation, selectedPoint, carRotation, followUser, searchCache,
           pending, now, hist >>

-----------------------------------------------------------------------------
\* Bounds of the model.

\* user and device events (handler invocations) in one run
MaxOps == 3
\* awaits in flight at the same time
MaxPending == 2
\* distinct values Math.random().toString(36).substr(2, 9) is drawn from
NumIds == 2
\* ticks of 30 s the clock Date.now() can advance in one run
MaxClock == 1

-----------------------------------------------------------------------------
\* Optional values and small helpers.

None == << >>
Some(v) == << v >>
IsSome(o) == o # << >>
Get(o) == o[1]

Abs(x) == IF x < 0 THEN -x ELSE x

\* JavaScript truthiness of an optional string: undefined and '' are falsy
Truthy(o) == IsSome(o) /\ Get(o) # << >>

\* a || b for an optional string a and a string b
OrElse(o, d) == IF Truthy(o) THEN Get(o) ELSE d

\* JavaScript truthiness of an optional number: undefined and 0 are falsy
TruthyNum(o) == IsSome(o) /\ Get(o) # 0

Range(s) == { s[i] : i \in DOMAIN s }

\* finite maps (a JavaScript Map): has, get, set
Has(m, k) == k \in DOMAIN m
Put(m, k, v) == (k :> v) @@ m
Count(m, k) == IF k \in DOMAIN m THEN m[k] ELSE 0
Inc(m, k) == (k :> (Count(m, k) + 1)) @@ m

-----------------------------------------------------------------------------
\* Strings the code normalises.

RECURSIVE TrimStart(_)
TrimStart(s) == IF s # << >> /\ Head(s) = " " THEN TrimStart(Tail(s)) ELSE s

RECURSIVE TrimEnd(_)
TrimEnd(s) ==
    IF s # << >> /\ s[Len(s)] = " " THEN TrimEnd(SubSeq(s, 1, Len(s) - 1)) ELSE s

\* String.prototype.trim
Trim(s) == TrimEnd(TrimStart(s))

LowerChar(c) == IF c = "S" THEN "s" ELSE IF c = "R" THEN "r" ELSE c

\* String.prototype.toLowerCase
ToLowerCase(s) == [i \in DOMAIN s |-> LowerChar(s[i])]

\* Number.prototype.toFixed(4) of a coordinate: the sign and the magnitude
\* rounded to four decimals (to the nearest 100 micro-degrees)
ToFixed4(x) == [neg |-> x < 0, val |-> (Abs(x) + 50) \div 100]

\* `${lat.toFixed(4)},${lng.toFixed(4)}`
CityKey(lat, lng) == << "city", ToFixed4(lat), ToFixed4(lng) >>

\* a key for text look-ups that keeps the case of the query
GeoKey_CaseSensitive(query) == << "geo", query >>

\* `geo:${query.toLowerCase()}`
GeoKey(query) == << "geo", ToLowerCase(query) >>

-----------------------------------------------------------------------------
\* Inputs: what the user types, what the providers and the device answer.

Loc(lat, lng) == [lat |-> lat, lng |-> lng]

INITIAL_COORDS == Loc(-3731700, -41000400)

\* the texts given to performCitySearch (forcedQuery || citySearchQuery)
Queries == { << "s" >>, << " ", "S" >>, << "r" >>, << " " >>, << >> }

\* place names the code passes to fetchCityData besides a query
MountPlace == << "T" >>
LocalPlace == << "L" >>

\* what the geocode call can come back with: a rejected call, a text
\* JSON.parse rejects, an empty text, or a parsed {lat, lng} object
GeoObject(lat, lng) == [kind |-> "json", lat |-> lat, lng |-> lng]
GeoError == [kind |-> "error", lat |-> None, lng |-> None]
GeoGarbage == [kind |-> "garbage", lat |-> None, lng |-> None]
GeoEmpty == [kind |-> "empty", lat |-> None, lng |-> None]
GeoNoFields == GeoObject(None, None)
GeoZeroLat == GeoObject(Some(0), Some(20000000))
GeoA == GeoObject(Some(10000010), Some(20000000))
GeoB == GeoObject(Some(10000040), Some(20000000))
GeoC == GeoObject(Some(10000060), Some(20000000))
GeoResponses ==
    { GeoError, GeoGarbage, GeoEmpty, GeoNoFields, GeoZeroLat, GeoA, GeoB, GeoC }

Bar(name, lat, lng) == [name |-> name, lat |-> lat, lng |-> lng]
BarJ == Bar("J", 10001000, 20001000)
BarK == Bar("K", 10002000, 20001000)
DistD == Bar("D", 10003000, 20002000)

CityJson(cn, cp, bars, dists) ==
    [kind |-> "json", cityName |-> cn, cityPopulation |-> cp,
     bars |-> bars, districts |-> dists]

\* what the discovery call can come back with: a rejected call, a text
\* JSON.parse rejects, an empty text, or a parsed object
CityError ==
    [kind |-> "error", cityName |-> None, cityPopulation |-> None,
     bars |-> None, districts |-> None]
CityGarbage == [CityError EXCEPT !.kind = "garbage"]
CityEmpty == [CityError EXCEPT !.kind = "empty"]
CityFull == CityJson(Some(<< "A" >>), Some(<< "9" >>), Some(<< BarJ >>), Some(<< DistD >>))
CityOneBar == CityJson(Some(<< "A" >>), Some(<< "9" >>), Some(<< BarK >>), Some(<< >>))
CityTwoBars == CityJson(None, None, Some(<< BarJ, BarK >>), Some(<< >>))
CityTown == CityJson(Some(<< "A" >>), Some(<< "9" >>), Some(<< BarJ, BarK >>), Some(<< DistD >>))
CityNoBars == CityJson(Some(<< "A" >>), None, None, Some(<< DistD >>))
CityNoDistricts == CityJson(None, None, Some(<< BarJ >>), None)
CityResponses ==
    { CityError, CityGarbage, CityEmpty, CityFull, CityOneBar, CityTwoBars, CityNoBars,
      CityNoDistricts }

\* the ids Math.random() can produce
Ids == 1 .. NumIds

\* the random draws of one applyCityData: one id per bar and per district
Draws(nb, nd) == { [bars |-> b, dists |-> d] : b \in [1 .. nb -> Ids], d \in [1 .. nd -> Ids] }

OptLen(o) == IF IsSome(o) THEN Len(Get(o)) ELSE 0

-----------------------------------------------------------------------------
\* The session as one record, and the state right after construction.

State ==
    [variant |-> variant, currentLocation |-> currentLocation, mapCenter |-> mapCenter,
     trackingPath |-> trackingPath, businesses |-> businesses, districts |-> districts,
     cityPopulation |-> cityPopulation, cityName |-> cityName, isLoading |-> isLoading,
     isDetecting |-> isDetecting, isNavigating |-> isNavigating,
     activeNavigation |-> activeNavigation, selectedPoint |-> selectedPoint,
     carRotation |-> carRotation, followUser |-> followUser, searchCache |-> searchCache,
     pending |-> pending, now |-> now, hist |-> hist]

\* the useState initial values of the component v, and an empty searchCache
Construct(v) ==
    [variant |-> v, currentLocation |-> None,
     mapCenter |-> IF v = 1 THEN None ELSE Some(INITIAL_COORDS),
     trackingPath |-> << >>, businesses |-> << >>, districts |-> << >>,
     cityPopulation |-> << >>, cityName |-> << >>, isLoading |-> FALSE,
     isDetecting |-> FALSE, isNavigating |-> FALSE,
     activeNavigation |-> None, selectedPoint |-> None,
     carRotation |-> 0, followUser |-> FALSE, searchCache |-> << >>,
     pending |-> {}, now |-> 0,
     hist |-> [ops |-> 0, lastSearch |-> 0, writer |-> [focus |-> 0, city |-> 0],
               discovers |-> << >>, cityCalls |-> << >>, applied |-> 0,
               uncaught |-> FALSE, routeGen |-> 0, geoCalls |-> 0]]

\* the part of the session a search must leave alone when it fails, as it is
\* when performCitySearch is called, with the events so far and whether no
\* other call is in flight
Snapshot(st) ==
    [ops |-> st.hist.ops, quiet |-> st.pending = {}, mapCenter |-> st.mapCenter,
     cityName |-> st.cityName, cityPopulation |-> st.cityPopulation,
     businesses |-> st.businesses, districts |-> st.districts,
     activeNavigation |-> st.activeNavigation, isNavigating |-> st.isNavigating]

\* the performCitySearch a call belongs to: its number, counted from 1, and the
\* session when it was called; NoSearch for a call of no search
NoSearch == [search |-> 0, pre |-> None]

\* an await in flight: a call of kind geo, city, route or locate with the
\* values its continuation closes over.  n tells the calls in flight apart;
\* route is the number of route requests and route cancellations up to and
\* including the goToLocation that made the call (0 for the other kinds).
Task(kind, src, query, lat, lng, placeName, item) ==
    [n |-> 0, kind |-> kind, search |-> src.search, pre |-> src.pre, query |-> query,
     lat |-> lat, lng |-> lng, placeName |-> placeName, item |-> item, route |-> 0]

\* st with one more call in flight
Issue(st, task) ==
    LET n == CHOOSE i \in 1 .. Cardinality(st.pending) + 1 :
                 \A t \in st.pending : t.n # i
    IN  [st EXCEPT !.pending = @ \cup { [task EXCEPT !.n = n] }]

-----------------------------------------------------------------------------
\* Discovery: fetchCityData and applyCityData.

DefaultPopulation(v) == IF v = 1 THEN << "N" >> ELSE << "P" >>

\* result.bars.map(b => ({...b, id: Math.random()..., status: 'pending'}))
MapBars(bars, ids) ==
    [i \in DOMAIN bars |->
        [id |-> ids[i], name |-> bars[i].name, lat |-> bars[i].lat, lng |-> bars[i].lng,
         status |-> "pending"]]

\* result.districts.map(d => ({...d, id: Math.random()..., covered: false}))
MapDistricts(dists, ids) ==
    [i \in DOMAIN dists |->
        [id |-> ids[i], name |-> dists[i].name, lat |-> dists[i].lat, lng |-> dists[i].lng,
         covered |-> FALSE]]

\* the item shape goToLocation reads: name, id, lat, lng
Target(id, name, lat, lng) == [id |-> id, name |-> name, lat |-> lat, lng |-> lng]

\* applyCityData that adds the points of the result to the ones of the session
\* instead of replacing them
applyCityData_Merge(st, result, lat, lng, placeName, draw) ==
    IF ~IsSome(result.bars) \/ ~IsSome(result.districts)
    THEN [st |-> [st EXCEPT !.hist.applied = @ + 1], threw |-> TRUE]
    ELSE [st |-> [st EXCEPT !.hist.applied = @ + 1,
                            !.cityName = OrElse(result.cityName, placeName),
                            !.businesses = @ \o MapBars(Get(result.bars), draw.bars),
                            !.districts = MapDistricts(Get(result.districts), draw.dists)],
          threw |-> FALSE]

\* The setters of applyCityData (second component) and of lines 173-176 (first
\* component), in order.  result.bars.map and result.districts.map throw a
\* TypeError on a missing array; the setters before the throw have taken effect.
\* Returns the session and whether it threw.
applyCityData(st, result, lat, lng, placeName, draw) ==
    LET s1 == [st EXCEPT !.hist.applied = @ + 1,
                         !.cityName = OrElse(result.cityName, placeName),
                         !.cityPopulation =
                             OrElse(result.cityPopulation, DefaultPopulation(st.variant))]
    IN  IF ~IsSome(result.bars) THEN [st |-> s1, threw |-> TRUE]
        ELSE
        LET s2 == [s1 EXCEPT !.businesses = MapBars(Get(result.bars), draw.bars)]
        IN  IF ~IsSome(result.districts) THEN [st |-> s2, threw |-> TRUE]
            ELSE
            LET s3 == [s2 EXCEPT !.districts = MapDistricts(Get(result.districts), draw.dists)]
            IN  [st |-> IF st.variant = 1 THEN s3
                        ELSE [s3 EXCEPT !.selectedPoint =
                                 Some(Target(None, OrElse(result.cityName, placeName), lat, lng))],
                 threw |-> FALSE]

\* JSON.parse(response.text || '{"bars":[], "districts": []}') of a response
\* that is neither rejected nor unparseable
ParseCity(resp) ==
    IF resp.kind = "empty"
    THEN CityJson(None, None, Some(<< >>), Some(<< >>))
    ELSE resp

\* fetchCityData without the look-up in searchCache: every call goes out
fetchCityData_Uncached(st, lat, lng, placeName, src, draw) ==
    Issue([st EXCEPT !.isLoading = TRUE,
                     !.hist.discovers = Inc(@, CityKey(lat, lng)),
                     !.hist.cityCalls = Inc(@, CityKey(lat, lng))],
          Task("city", src, << >>, lat, lng, placeName, None))

\* fetchCityData up to its await.  In the second component a cached key is
\* applied at once, outside any try: a throw there rejects the promise of the
\* async function, which no caller awaits or catches (hist.uncaught).
fetchCityData(st, lat, lng, placeName, src, draw) ==
    LET key == CityKey(lat, lng)
        s0 == [st EXCEPT !.hist.discovers = Inc(@, key)]
    IN  IF st.variant = 2 /\ Has(st.searchCache, key)
        THEN LET r == applyCityData(s0, st.searchCache[key], lat, lng, placeName, draw)
             IN  IF r.threw THEN [r.st EXCEPT !.hist.uncaught = TRUE]
                 ELSE [r.st EXCEPT !.hist.writer.city =
                                      IF src.search > 0 THEN src.search ELSE @]
        ELSE Issue([s0 EXCEPT !.isLoading = TRUE, !.hist.cityCalls = Inc(@, key)],
                   Task("city", src, << >>, lat, lng, placeName, None))

\* fetchCityData after its await without its finally: a rejected or unparseable
\* answer leaves isLoading as it is
cityResponse_NoFinally(st, t, resp, draw) ==
    LET s0 == [st EXCEPT !.pending = @ \ { t }]
    IN  IF resp.kind \in { "error", "garbage" } THEN s0
        ELSE [applyCityData(s0, ParseCity(resp), t.lat, t.lng, t.placeName, draw).st
                 EXCEPT !.isLoading = FALSE]

\* fetchCityData after its await that stores the default payload under the key
\* when the call is rejected or its text is not JSON
cityResponse_CachesFailure(st, t, resp, draw) ==
    LET s0 == [st EXCEPT !.pending = @ \ { t }, !.isLoading = FALSE]
        key == CityKey(t.lat, t.lng)
    IN  IF resp.kind \in { "error", "garbage" }
        THEN [s0 EXCEPT !.searchCache = Put(@, key, ParseCity(CityEmpty))]
        ELSE applyCityData([s0 EXCEPT !.searchCache = Put(@, key, ParseCity(resp))],
                           ParseCity(resp), t.lat, t.lng, t.placeName, draw).st

\* fetchCityData after its await that stores an answer only if it lists a bar
\* or a district
cityResponse_SkipsEmpty(st, t, resp, draw) ==
    LET s0 == [st EXCEPT !.pending = @ \ { t }]
        done(s) == [s EXCEPT !.isLoading = FALSE]
    IN  IF resp.kind \in { "error", "garbage" } THEN done(s0)
        ELSE
        LET result == ParseCity(resp)
            s1 == IF st.variant = 2 /\ OptLen(result.bars) + OptLen(result.districts) > 0
                  THEN [s0 EXCEPT !.searchCache = Put(@, CityKey(t.lat, t.lng), result)]
                  ELSE s0
            r == applyCityData(s1, result, t.lat, t.lng, t.placeName, draw)
        IN  IF r.threw THEN done(r.st)
            ELSE done([r.st EXCEPT !.hist.writer.city = IF t.search > 0 THEN t.search ELSE @])

\* fetchCityData after its await: the rest of the try, the catch, the finally.
\* In the first component performCitySearch awaits fetchCityData inside its own
\* try, so its finally (setIsLoading(false) again) runs right after this one.
cityResponse(st, t, resp, draw) ==
    LET s0 == [st EXCEPT !.pending = @ \ { t }]
        done(s) == [s EXCEPT !.isLoading = FALSE]
    IN  IF resp.kind \in { "error", "garbage" } THEN done(s0)
        ELSE
        LET result == ParseCity(resp)
            s1 == IF st.variant = 2
                  THEN [s0 EXCEPT !.searchCache = Put(@, CityKey(t.lat, t.lng), result)]
                  ELSE s0
            r == applyCityData(s1, result, t.lat, t.lng, t.placeName, draw)
        IN  IF r.threw THEN done(r.st)
            ELSE done([r.st EXCEPT !.hist.writer.city = IF t.search > 0 THEN t.search ELSE @])

-----------------------------------------------------------------------------
\* Search: performCitySearch.

\* performCitySearch up to its await.  q is forcedQuery || citySearchQuery.
performCitySearch(st, q, draw) ==
    LET query == IF st.variant = 2 THEN Trim(q) ELSE q
        n == st.hist.lastSearch + 1
        src == [search |-> n, pre |-> Some(Snapshot(st))]
    IN  IF query = << >> THEN st
        ELSE IF st.variant = 2 /\ Has(st.searchCache, GeoKey(query))
        THEN LET geo == st.searchCache[GeoKey(query)]
                 s1 == [st EXCEPT !.mapCenter = Some(Loc(Get(geo.lat), Get(geo.lng))),
                                  !.hist.lastSearch = n, !.hist.writer.focus = n]
             IN  fetchCityData(s1, Get(geo.lat), Get(geo.lng), query, src, draw)
        ELSE Issue([st EXCEPT !.isLoading = TRUE, !.hist.lastSearch = n,
                              !.hist.geoCalls = @ + 1],
                   Task("geo", src, query, 0, 0, << >>, None))

\* performCitySearch after its await: the rest of the try, the catch, the finally.
\* The second component calls fetchCityData without awaiting it, so its finally
\* runs as soon as fetchCityData reaches its own await; the first component
\* awaits it, and its finally runs after the discovery is answered.
geoResponse(st, t, resp, draw) ==
    LET s0 == [st EXCEPT !.pending = @ \ { t }]
        done(s) == [s EXCEPT !.isLoading = FALSE]
    IN  IF resp.kind \in { "error", "garbage" } THEN done(s0)
        ELSE IF TruthyNum(resp.lat) /\ TruthyNum(resp.lng)
        THEN LET lat == Get(resp.lat)
                 lng == Get(resp.lng)
                 s1 == IF st.variant = 2
                       THEN [s0 EXCEPT !.searchCache = Put(@, GeoKey(t.query), resp)]
                       ELSE s0
                 s2 == [s1 EXCEPT !.mapCenter = Some(Loc(lat, lng)),
                                  !.hist.writer.focus = t.search]
                 s3 == fetchCityData(s2, lat, lng, t.query,
                                     [search |-> t.search, pre |-> t.pre], draw)
             IN  IF st.variant = 2 THEN done(s3) ELSE s3
        ELSE done(s0)

-----------------------------------------------------------------------------
\* Location: handleLocationUpdate, detectRealLocation, toggleNavigation.

\* the location samples the device reports, all on one meridian
LocSamples == { Loc(0, 0), Loc(3, 0), Loc(50, 0), Loc(60, 0) }

\* Math.atan2(dx, dy) * (180 / Math.PI) in degrees, on the axes and diagonals
Atan2Deg(dx, dy) ==
    CASE dx = 0 /\ dy >= 0 -> 0
      [] dx = 0 /\ dy < 0 -> 180
      [] dy = 0 /\ dx > 0 -> 90
      [] dy = 0 /\ dx < 0 -> -90
      [] dx > 0 /\ dy = dx -> 45
      [] dx > 0 /\ dy = -dx -> 135
      [] dx < 0 /\ dy = -dx -> -45
      [] dx < 0 /\ dy = dx -> -135

TrackPoint(ts, loc) == [timestamp |-> ts, location |-> loc]

\* Date.now() is read at the instant ts: the clock never runs backwards
ReadClock(st, ts) == [st EXCEPT !.now = ts]

\* the instants a read of Date.now() can return
Instants(st) == { st.now + k * 30000 : k \in 0 .. (MaxClock - st.now \div 30000) }

\* the updater passed to setTrackingPath by the second component
appendFiltered(prev, loc, ts) ==
    IF prev = << >>
       \/ Abs(prev[Len(prev)].location.lat - loc.lat) > 50
       \/ Abs(prev[Len(prev)].location.lng - loc.lng) > 50
    THEN Append(prev, TrackPoint(ts, loc))
    ELSE prev

\* handleLocationUpdate that keeps only the latest sample in trackingPath
handleLocationUpdate_KeepsLast(st, loc, ts) ==
    ReadClock([st EXCEPT !.currentLocation = Some(loc),
                         !.trackingPath = << TrackPoint(ts, loc) >>], ts)

\* handleLocationUpdate that records every sample, tracking on or off
handleLocationUpdate_AlwaysRecords(st, loc, ts) ==
    ReadClock([st EXCEPT !.currentLocation = Some(loc),
                         !.trackingPath = Append(@, TrackPoint(ts, loc))], ts)

\* handleLocationUpdate(loc), with ts the value of Date.now() where it is read
handleLocationUpdate(st, loc, ts) ==
    IF st.variant = 1
    THEN LET s1 == IF IsSome(st.currentLocation)
                   THEN [st EXCEPT !.carRotation =
                            Atan2Deg(loc.lng - Get(st.currentLocation).lng,
                                     loc.lat - Get(st.currentLocation).lat)]
                   ELSE st
             s2 == [s1 EXCEPT !.currentLocation = Some(loc)]
         IN  IF st.isNavigating
             THEN ReadClock([s2 EXCEPT !.trackingPath = Append(@, TrackPoint(ts, loc))], ts)
             ELSE s2
    ELSE LET dy == loc.lat - Get(st.currentLocation).lat
             dx == loc.lng - Get(st.currentLocation).lng
             path == appendFiltered(st.trackingPath, loc, ts)
             s1 == IF IsSome(st.currentLocation) /\ (Abs(dy) > 5 \/ Abs(dx) > 5)
                   THEN LET s == [st EXCEPT !.carRotation = Atan2Deg(dx, dy),
                                            !.trackingPath = path]
                        IN  IF path # st.trackingPath THEN ReadClock(s, ts) ELSE s
                   ELSE st
         IN  [s1 EXCEPT !.currentLocation = Some(loc)]

\* toggleNavigation that never empties trackingPath
toggleNavigation_KeepsTrack(st) ==
    IF st.isNavigating
    THEN [st EXCEPT !.isNavigating = FALSE, !.activeNavigation = None]
    ELSE [st EXCEPT !.isNavigating = TRUE]

\* toggleNavigation whose stop also empties the list of points
toggleNavigation_ResetsPoints(st) ==
    IF st.isNavigating
    THEN [st EXCEPT !.isNavigating = FALSE, !.activeNavigation = None,
                    !.followUser = FALSE, !.businesses = << >>]
    ELSE [st EXCEPT !.isNavigating = TRUE, !.trackingPath = << >>]

\* toggleNavigation whose stop leaves the route in place
toggleNavigation_KeepsRoute(st) ==
    IF st.isNavigating
    THEN [st EXCEPT !.isNavigating = FALSE,
                    !.trackingPath = IF st.variant = 1 THEN << >> ELSE @]
    ELSE [st EXCEPT !.isNavigating = TRUE,
                    !.trackingPath = IF st.variant = 2 THEN << >> ELSE @]

\* Stopping cancels the route (hist.routeGen counts it).
toggleNavigation(st) ==
    IF st.variant = 1
    THEN IF st.isNavigating
         THEN [st EXCEPT !.isNavigating = FALSE, !.trackingPath = << >>,
                         !.activeNavigation = None, !.hist.routeGen = @ + 1]
         ELSE [st EXCEPT !.isNavigating = TRUE]
    ELSE IF st.isNavigating
         THEN [st EXCEPT !.isNavigating = FALSE, !.activeNavigation = None,
                         !.followUser = FALSE, !.hist.routeGen = @ + 1]
         ELSE [st EXCEPT !.isNavigating = TRUE, !.trackingPath = << >>]

\* detectRealLocation up to the getCurrentPosition callback
detectRealLocation(st) ==
    Issue([st EXCEPT !.isDetecting = TRUE], Task("locate", NoSearch, << >>, 0, 0, << >>, None))

\* callbacks of getCurrentPosition whose error callback forgets the position
locateResponse_ErrorForgetsPosition(st, t, ok, loc, draw) ==
    LET s0 == [st EXCEPT !.pending = @ \ { t }]
    IN  IF ok
        THEN fetchCityData([s0 EXCEPT !.currentLocation = Some(loc), !.mapCenter = Some(loc),
                                      !.isDetecting = FALSE],
                           loc.lat, loc.lng, LocalPlace, NoSearch, draw)
        ELSE [s0 EXCEPT !.isDetecting = FALSE, !.currentLocation = None]

\* the success callback (ok, with the position loc) or the error callback
locateResponse(st, t, ok, loc, draw) ==
    LET s0 == [st EXCEPT !.pending = @ \ { t }]
    IN  IF ok
        THEN fetchCityData([s0 EXCEPT !.currentLocation = Some(loc), !.mapCenter = Some(loc),
                                      !.isDetecting = FALSE],
                           loc.lat, loc.lng, LocalPlace, NoSearch, draw)
        ELSE [s0 EXCEPT !.isDetecting = FALSE]

-----------------------------------------------------------------------------
\* Status of a point: handleStatusUpdate.

\* handleStatusUpdate that keeps a status once it is no longer pending
handleStatusUpdate_FirstWriteWins(st, id, status) ==
    [st EXCEPT !.businesses =
        [i \in DOMAIN @ |-> IF @[i].id = id /\ @[i].status = "pending"
                            THEN [@[i] EXCEPT !.status = status] ELSE @[i]]]

\* handleStatusUpdate that writes the status of every point
handleStatusUpdate_AllPoints(st, id, status) ==
    [st EXCEPT !.businesses = [i \in DOMAIN @ |-> [@[i] EXCEPT !.status = status]]]

handleStatusUpdate(st, id, status) ==
    [st EXCEPT !.businesses =
        [i \in DOMAIN @ |-> IF @[i].id = id THEN [@[i] EXCEPT !.status = status] ELSE @[i]]]

-----------------------------------------------------------------------------
\* Routes: fetchStreetRoute, goToLocation and the buttons of the navigation HUD.

\* what the routing call can come back with: a rejected fetch, a body without
\* routes, or a first route with distance (m), duration (s) and geometry
RouteJson(distance, duration) ==
    [kind |-> "route", distance |-> distance, duration |-> duration,
     coordinates |-> << << 20000000, 10000000 >>, << 20001000, 10001000 >> >>]
RouteError == [kind |-> "error", distance |-> 0, duration |-> 0, coordinates |-> << >>]
RouteNone == [kind |-> "noroute", distance |-> 0, duration |-> 0, coordinates |-> << >>]
RouteResponses == { RouteError, RouteNone, RouteJson(1200, 300), RouteJson(1260, 330) }

\* a distance text that cuts the metres off instead of rounding them
DistanceText_Truncates(d) ==
    [km |-> d \div 1000, tenth |-> (d \div 100) % 10, unit |-> "km"]

\* (route.distance / 1000).toFixed(1) + ' km': the kilometres and the tenth
DistanceText(d) ==
    [km |-> ((d + 50) \div 100) \div 10, tenth |-> ((d + 50) \div 100) % 10, unit |-> "km"]

\* Math.round(route.duration / 60) + ' min'
TimeText(sec) == [min |-> (sec + 30) \div 60, unit |-> "min"]

\* new Date(ms).toLocaleTimeString([], {hour: '2-digit', minute: '2-digit'})
ArrivalText(ms) == [hour |-> (ms \div 3600000) % 24, minute |-> (ms \div 60000) % 60]

\* fetchStreetRoute that counts the arrival from the instant 0 instead of the
\* instant it reads
fetchStreetRoute_ArrivalFromZero(st, resp, ts) ==
    IF resp.kind = "route"
    THEN Some([points |-> [i \in DOMAIN resp.coordinates |->
                              << resp.coordinates[i][2], resp.coordinates[i][1] >>],
               distance |-> DistanceText(resp.distance),
               time |-> TimeText(resp.duration),
               arrivalTime |-> IF st.variant = 2
                               THEN Some(ArrivalText(resp.duration * 1000))
                               ELSE None])
    ELSE None

\* fetchStreetRoute after its awaits: the route fragment, or null; ts is the
\* value of Date.now() where the second component reads it
fetchStreetRoute(st, resp, ts) ==
    IF resp.kind = "route"
    THEN Some([points |-> [i \in DOMAIN resp.coordinates |->
                              << resp.coordinates[i][2], resp.coordinates[i][1] >>],
               distance |-> DistanceText(resp.distance),
               time |-> TimeText(resp.duration),
               arrivalTime |-> IF st.variant = 2
                               THEN Some(ArrivalText(ts + resp.duration * 1000))
                               ELSE None])
    ELSE None

\* the items goToLocation can be called with: the rows of the lists and, in the
\* second component, the sheet of the selected point
BusinessItem(b) == Target(Some(b.id), b.name, b.lat, b.lng)
Items(st) ==
    { BusinessItem(st.businesses[i]) : i \in DOMAIN st.businesses }
    \cup { BusinessItem(st.districts[i]) : i \in DOMAIN st.districts }
    \cup (IF st.variant = 2 /\ IsSome(st.selectedPoint) /\ ~IsSome(st.activeNavigation)
          THEN { Get(st.selectedPoint) } ELSE {})

\* goToLocation that asks for a route whether or not the position is known
goToLocation_AlwaysRoutes(st, item) ==
    Issue([st EXCEPT !.isLoading = TRUE,
                     !.mapCenter = Some(Loc(item.lat, item.lng))],
          Task("route", NoSearch, << >>, 0, 0, << >>, Some(item)))

\* goToLocation up to its await
goToLocation(st, item) ==
    LET s0 == IF st.variant = 2 THEN [st EXCEPT !.selectedPoint = None] ELSE st
    IN  IF ~IsSome(st.currentLocation)
        THEN [s0 EXCEPT !.mapCenter = Some(Loc(item.lat, item.lng))]
        ELSE Issue([s0 EXCEPT !.isLoading = TRUE, !.hist.routeGen = @ + 1],
                   [Task("route", NoSearch, << >>, 0, 0, << >>, Some(item))
                       EXCEPT !.route = st.hist.routeGen + 1])

\* goToLocation after its await that drops the route in place when it gets none
routeResponse_DropsRouteOnFailure(st, t, resp, ts) ==
    LET s0 == [st EXCEPT !.pending = @ \ { t }, !.isLoading = FALSE]
        streetRoute == fetchStreetRoute(st, resp, ts)
    IN  IF IsSome(streetRoute)
        THEN [s0 EXCEPT !.activeNavigation =
                 Some([target |-> Get(t.item), distance |-> Get(streetRoute).distance,
                       time |-> Get(streetRoute).time,
                       arrivalTime |-> Get(streetRoute).arrivalTime,
                       geometry |-> Get(streetRoute).points]),
                 !.mapCenter = Some(Loc(Get(t.item).lat, Get(t.item).lng))]
        ELSE [s0 EXCEPT !.activeNavigation = None]

\* goToLocation after its await
routeResponse(st, t, resp, ts) ==
    LET s0 == IF st.variant = 2 /\ resp.kind = "route"
              THEN ReadClock([st EXCEPT !.pending = @ \ { t }], ts)
              ELSE [st EXCEPT !.pending = @ \ { t }]
        item == Get(t.item)
        streetRoute == fetchStreetRoute(st, resp, ts)
        s1 == IF IsSome(streetRoute)
              THEN LET r == Get(streetRoute)
                       s == [s0 EXCEPT !.activeNavigation =
                                Some([target |-> item, distance |-> r.distance,
                                      time |-> r.time, arrivalTime |-> r.arrivalTime,
                                      geometry |-> r.points]),
                                !.mapCenter = Some(Loc(item.lat, item.lng))]
                   IN  IF st.variant = 2
                       THEN [s EXCEPT !.isNavigating = TRUE, !.followUser = TRUE]
                       ELSE s
              ELSE s0
    IN  [s1 EXCEPT !.isLoading = FALSE]

\* a clearRoute that also stops the tracking and discards the track
clearRoute_StopsTracking(st) ==
    [st EXCEPT !.activeNavigation = None, !.followUser = FALSE,
               !.isNavigating = FALSE, !.trackingPath = << >>]

\* a clearRoute that leaves the follow mode as it is
clearRoute_KeepsFollow(st) ==
    [st EXCEPT !.activeNavigation = None, !.hist.routeGen = @ + 1]

\* onClick of the close and 'Sair' buttons of the HUD
clearRoute(st) ==
    IF st.variant = 2
    THEN [st EXCEPT !.activeNavigation = None, !.followUser = FALSE,
                    !.hist.routeGen = @ + 1]
    ELSE [st EXCEPT !.activeNavigation = None, !.hist.routeGen = @ + 1]

\* onClick of the compass button of the HUD (second component)
followButton(st) == [st EXCEPT !.followUser = TRUE]

-----------------------------------------------------------------------------
\* The state machine.

\* the random draws an applyCityData of result consumes
NoDraw == [bars |-> << >>, dists |-> << >>]
DrawsOf(result) == Draws(OptLen(result.bars), OptLen(result.districts))

\* the draws of a fetchCityData(lat, lng): none unless it applies a cached result
CachedDraws(st, lat, lng) ==
    IF st.variant = 2 /\ Has(st.searchCache, CityKey(lat, lng))
    THEN DrawsOf(st.searchCache[CityKey(lat, lng)])
    ELSE { NoDraw }

SearchDraws(st, q) ==
    IF st.variant = 2 /\ Trim(q) # << >> /\ Has(st.searchCache, GeoKey(Trim(q)))
    THEN CachedDraws(st, Get(st.searchCache[GeoKey(Trim(q))].lat),
                     Get(st.searchCache[GeoKey(Trim(q))].lng))
    ELSE { NoDraw }

Is(st) ==
    /\ variant = st.variant
    /\ currentLocation = st.currentLocation
    /\ mapCenter = st.mapCenter
    /\ trackingPath = st.trackingPath
    /\ businesses = st.businesses
    /\ districts = st.districts
    /\ cityPopulation = st.cityPopulation
    /\ cityName = st.cityName
    /\ isLoading = st.isLoading
    /\ isDetecting = st.isDetecting
    /\ isNavigating = st.isNavigating
    /\ activeNavigation = st.activeNavigation
    /\ selectedPoint = st.selectedPoint
    /\ carRotation = st.carRotation
    /\ followUser = st.followUser
    /\ searchCache = st.searchCache
    /\ pending = st.pending
    /\ now = st.now
    /\ hist = st.hist

Commit(st) ==
    /\ variant' = st.variant
    /\ currentLocation' = st.currentLocation
    /\ mapCenter' = st.mapCenter
    /\ trackingPath' = st.trackingPath
    /\ businesses' = st.businesses
    /\ districts' = st.districts
    /\ cityPopulation' = st.cityPopulation
    /\ cityName' = st.cityName
    /\ isLoading' = st.isLoading
    /\ isDetecting' = st.isDetecting
    /\ isNavigating' = st.isNavigating
    /\ activeNavigation' = st.activeNavigation
    /\ selectedPoint' = st.selectedPoint
    /\ carRotation' = st.carRotation
    /\ followUser' = st.followUser
    /\ searchCache' = st.searchCache
    /\ pending' = st.pending
    /\ now' = st.now
    /\ hist' = st.hist

\* the mount effect of the second component (lines 589-597) has run
Mounted(v) ==
    IF v = 2
    THEN fetchCityData(Construct(2), INITIAL_COORDS.lat, INITIAL_COORDS.lng,
                       MountPlace, NoSearch, NoDraw)
    ELSE Construct(1)

Init == \E v \in { 1, 2 } : Is(Mounted(v))

\* one more user or device event
Op(st) == [st EXCEPT !.hist.ops = @ + 1]
CanOp == hist.ops < MaxOps
CanIssue == Cardinality(pending) < MaxPending

\* the search header is rendered only while no route is active (line 806)
HeaderShown == variant = 1 \/ ~IsSome(activeNavigation)
\* the HUD is rendered only while a route is active (lines 419, 1027)
HudShown == IsSome(activeNavigation)

\* An environment E names the inputs a specification draws from: the queries
\* typed, the answers of the geocode, discovery and routing calls, the
\* positions of the one-shot request, the samples of the location stream and
\* the statuses reported.

PerformCitySearch(E) ==
    /\ CanOp /\ CanIssue /\ HeaderShown
    /\ \E q \in E.queries : \E draw \in SearchDraws(State, q) :
          Commit(performCitySearch(Op(State), q, draw))

GeoResponse(E) ==
    \E t \in { x \in pending : x.kind = "geo" } : \E resp \in E.geo :
      \E draw \in (IF TruthyNum(resp.lat) /\ TruthyNum(resp.lng)
                   THEN CachedDraws(State, Get(resp.lat), Get(resp.lng))
                   ELSE { NoDraw }) :
          Commit(geoResponse(State, t, resp, draw))

CityResponse(E) ==
    \E t \in { x \in pending : x.kind = "city" } : \E resp \in E.city :
      \E draw \in DrawsOf(ParseCity(resp)) :
          Commit(cityResponse(State, t, resp, draw))

DetectRealLocation ==
    /\ CanOp /\ CanIssue /\ HeaderShown
    /\ Commit(detectRealLocation(Op(State)))

LocateResponse(E) ==
    \E t \in { x \in pending : x.kind = "locate" } :
      \/ \E loc \in E.detect : \E draw \in CachedDraws(State, loc.lat, loc.lng) :
            Commit(locateResponse(State, t, TRUE, loc, draw))
      \/ Commit(locateResponse(State, t, FALSE, Loc(0, 0), NoDraw))

\* <LocationTracker enabled={true} />: the prop is a literal in both components
TrackerEnabled == TRUE

\* the effect of LocationTracker: map.locate({watch: true}) when enabled,
\* map.stopLocate() otherwise
Subscribed == TrackerEnabled

\* locationfound(e) { if (enabled) onLocationUpdate(...) }
Delivers == TrackerEnabled

HandleLocationUpdate(E) ==
    /\ CanOp
    /\ Subscribed /\ Delivers
    /\ \E loc \in E.locs : \E ts \in Instants(State) :
          Commit(handleLocationUpdate(Op(State), loc, ts))

ToggleNavigation ==
    /\ CanOp
    /\ Commit(toggleNavigation(Op(State)))

HandleStatusUpdate(E) ==
    /\ CanOp
    /\ \E id \in Ids : \E status \in E.status :
          Commit(handleStatusUpdate(Op(State), id, status))

GoToLocation ==
    /\ CanOp /\ CanIssue
    /\ \E item \in Items(State) : Commit(goToLocation(Op(State), item))

RouteResponse(E) ==
    \E t \in { x \in pending : x.kind = "route" } : \E resp \in E.route :
      \E ts \in Instants(State) :
          Commit(routeResponse(State, t, resp, ts))

ClearRoute ==
    /\ CanOp /\ HudShown
    /\ Commit(clearRoute(Op(State)))

FollowButton ==
    /\ CanOp /\ HudShown /\ variant = 2
    /\ Commit(followButton(Op(State)))

Next(E) ==
    \/ PerformCitySearch(E)
    \/ GeoResponse(E)
    \/ CityResponse(E)
    \/ DetectRealLocation
    \/ LocateResponse(E)
    \/ HandleLocationUpdate(E)
    \/ ToggleNavigation
    \/ HandleStatusUpdate(E)
    \/ GoToLocation
    \/ RouteResponse(E)
    \/ ClearRoute
    \/ FollowButton

\* searches and discoveries under every kind of answer, a still device
EnvSearch ==
    [queries |-> { << "s" >>, << " ", "S" >> },
     geo |-> { GeoError, GeoZeroLat, GeoA, GeoB },
     city |-> { CityError, CityEmpty, CityOneBar, CityNoBars },
     detect |-> { Loc(0, 0) },
     locs |-> { Loc(0, 0) },
     status |-> { "success" },
     route |-> { RouteError, RouteJson(1200, 300) }]

\* a moving device, one place to search
EnvTrack ==
    [queries |-> { << "s" >> },
     geo |-> { GeoA },
     city |-> { CityError, CityOneBar },
     detect |-> { Loc(0, 0) },
     locs |-> LocSamples,
     status |-> { "success" },
     route |-> { RouteError, RouteJson(1200, 300) }]

\* routes under every kind of answer, two places to search
EnvRoute ==
    [queries |-> { << "s" >> },
     geo |-> { GeoError, GeoA },
     city |-> { CityFull },
     detect |-> { Loc(0, 0) },
     locs |-> { Loc(0, 0), Loc(60, 0) },
     status |-> { "success", "failure" },
     route |-> RouteResponses]

\* two points and a district, both statuses, one route
EnvPoints ==
    [queries |-> { << "s" >> },
     geo |-> { GeoA },
     city |-> { CityTown },
     detect |-> { Loc(0, 0) },
     locs |-> { Loc(0, 0), Loc(60, 0) },
     status |-> { "success", "failure" },
     route |-> { RouteJson(1200, 300) }]

SpecSearch == Init /\ [][Next(EnvSearch)]_vars
SpecTrack == Init /\ [][Next(EnvTrack)]_vars
SpecRoute == Init /\ [][Next(EnvRoute)]_vars
SpecPoints == Init /\ [][Next(EnvPoints)]_vars

-----------------------------------------------------------------------------
\* Properties of search and discovery (SpecSearch).

\* C1: the map focus and the city data are written by searches in the order
\* the searches were invoked: no step lets the response of an earlier search
\* overwrite what a later search has written.
C1_NoStaleOverwrite ==
    [][/\ hist'.writer.focus >= hist.writer.focus
       /\ hist'.writer.city >= hist.writer.city]_vars

\* C2 as stated: in the second component, a cache key discovered twice or more
\* has gone out to the provider exactly once.
C2_ExactlyOneExternalCall ==
    variant = 2 =>
        \A k \in DOMAIN hist.discovers :
            hist.discovers[k] >= 2 => Count(hist.cityCalls, k) = 1

\* C2: once the answer for a key is stored in searchCache, no step issues an
\* external discovery call for that key: a later discover call whose
\* coordinates round to the key is served from the cache.
C2_CachedKeyNotRefetched ==
    [][\A k \in DOMAIN searchCache :
          Count(hist'.cityCalls, k) = Count(hist.cityCalls, k)]_vars

\* a key answered once and stored, discovered again, and still called once
C2_Witness ==
    /\ variant = 2
    /\ \E k \in DOMAIN searchCache :
          /\ Count(hist.discovers, k) >= 2
          /\ Count(hist.cityCalls, k) = 1
          /\ \A t \in pending : t.kind = "city" => CityKey(t.lat, t.lng) # k

\* the fields a failed search must leave alone are as in the snapshot pre
SameSession(st, pre) ==
    /\ st.mapCenter = pre.mapCenter
    /\ st.cityName = pre.cityName
    /\ st.cityPopulation = pre.cityPopulation
    /\ st.businesses = pre.businesses
    /\ st.districts = pre.districts
    /\ st.activeNavigation = pre.activeNavigation
    /\ st.isNavigating = pre.isNavigating

\* C6: a search invoked while nothing else is in flight, and followed by no
\* other event, leaves map focus, city label and population, points,
\* districts, route and tracking flag as they were when it was invoked, if its
\* geocode call or its discovery call is rejected or answers with a malformed
\* payload.
C6_FailedSearchLeavesSession ==
    \A t \in pending :
        (t.search > 0 /\ Get(t.pre).quiet /\ Get(t.pre).ops = hist.ops) =>
            /\ t.kind = "geo" =>
                  \A resp \in { GeoError, GeoGarbage } :
                      SameSession(geoResponse(State, t, resp, NoDraw), Get(t.pre))
            /\ t.kind = "city" =>
                  \A resp \in { CityError, CityGarbage, CityNoBars, CityNoDistricts } :
                      \A draw \in DrawsOf(resp) :
                          SameSession(cityResponse(State, t, resp, draw), Get(t.pre))

\* C7: no run raises an uncaught exception, and the answer of a discovery
\* call leaves the session with no points if it has no bars and with no
\* districts if it has no districts.
C7_MalformedPayloadDegrades ==
    /\ ~hist.uncaught
    /\ \A t \in { x \in pending : x.kind = "city" } :
          /\ \A draw \in DrawsOf(CityNoBars) :
                cityResponse(State, t, CityNoBars, draw).businesses = << >>
          /\ \A draw \in DrawsOf(CityNoDistricts) :
                cityResponse(State, t, CityNoDistricts, draw).districts = << >>

\* C8: when no geocode, discovery or routing call is in flight, isLoading is
\* false: every search, discovery and route request has cleared it, whether it
\* succeeded or failed.
C8_LoadingCleared ==
    (\A t \in pending : t.kind = "locate") => ~isLoading

\* a search has been made, everything has been answered, and nothing was ever
\* applied: every call of the run has failed
C8_Witness ==
    /\ pending = {}
    /\ hist.lastSearch >= 1
    /\ hist.applied = 0
    /\ DOMAIN hist.cityCalls # {}
    /\ ~isLoading

-----------------------------------------------------------------------------
\* Properties of the location stream (SpecTrack).

\* C3: the timestamps of trackingPath never decrease, and two consecutive
\* points differ by more than 0.00005 degrees in latitude or in longitude.
C3_TrackOrderedAndSpaced ==
    \A i \in 1 .. Len(trackingPath) - 1 :
        /\ trackingPath[i].timestamp <= trackingPath[i + 1].timestamp
        /\ \/ Abs(trackingPath[i + 1].location.lat - trackingPath[i].location.lat) > 50
           \/ Abs(trackingPath[i + 1].location.lng - trackingPath[i].location.lng) > 50

\* C4: handleLocationUpdate(loc) always sets currentLocation to loc, appends
\* at most one point to trackingPath, and leaves trackingPath alone when
\* isNavigating is false.
C4_TrackOnlyWhileNavigating ==
    \A loc \in LocSamples : \A ts \in Instants(State) :
        LET after == handleLocationUpdate(State, loc, ts)
        IN  /\ after.currentLocation = Some(loc)
            /\ \/ after.trackingPath = trackingPath
               \/ after.trackingPath = Append(trackingPath, TrackPoint(ts, loc))
            /\ ~isNavigating => after.trackingPath = trackingPath

-----------------------------------------------------------------------------
\* Properties of routes and of the points (SpecRoute).

\* the ids of the points and districts of the session
TargetIds == { businesses[i].id : i \in DOMAIN businesses }
             \cup { districts[i].id : i \in DOMAIN districts }

\* C5: while a route is active, its target is the city pseudo-target (which
\* has no id) or a point or district of the current collections.
C5_RouteTargetPresent ==
    IsSome(activeNavigation) =>
        \/ ~IsSome(Get(activeNavigation).target.id)
        \/ Get(Get(activeNavigation).target.id) \in TargetIds

\* C9: handleStatusUpdate is last-write-wins (success then failure leaves
\* failure), idempotent, changes nothing but the status of the points with
\* the id, and changes nothing at all for an id no point has.
C9_StatusLastWriteWins ==
    \A id \in Ids : \A s1 \in { "success", "failure" } : \A s2 \in { "success", "failure" } :
        LET once == handleStatusUpdate(State, id, s1)
            twice == handleStatusUpdate(once, id, s2)
        IN  /\ Len(twice.businesses) = Len(businesses)
            /\ \A i \in DOMAIN businesses :
                  twice.businesses[i] =
                      IF businesses[i].id = id
                      THEN [businesses[i] EXCEPT !.status = s2]
                      ELSE businesses[i]
            /\ handleStatusUpdate(once, id, s1) = once
            /\ (\A i \in DOMAIN businesses : businesses[i].id # id) => once = State

\* a point whose status was written, and an id no point has
C9_Witness ==
    /\ \E i \in DOMAIN businesses : businesses[i].status = "failure"
    /\ \E id \in Ids : \A i \in DOMAIN businesses : businesses[i].id # id

\* the discovery answers that carry both arrays
WellFormed == { CityEmpty, CityFull, CityOneBar, CityTwoBars }

\* C10: the answer of a discovery call with N bars and M districts leaves
\* exactly N points, all pending and carrying the bars' names and coordinates
\* in order, and exactly M districts, all with covered false, whatever the
\* session held before.
C10_DiscoveryReplacesWholesale ==
    \A t \in { x \in pending : x.kind = "city" } :
        \A resp \in WellFormed : \A draw \in DrawsOf(ParseCity(resp)) :
            LET bars == Get(ParseCity(resp).bars)
                dists == Get(ParseCity(resp).districts)
                after == cityResponse(State, t, resp, draw)
            IN  /\ Len(after.businesses) = Len(bars)
                /\ \A i \in DOMAIN bars :
                      /\ after.businesses[i].status = "pending"
                      /\ after.businesses[i].name = bars[i].name
                      /\ after.businesses[i].lat = bars[i].lat
                      /\ after.businesses[i].lng = bars[i].lng
                /\ Len(after.districts) = Len(dists)
                /\ \A i \in DOMAIN dists :
                      /\ after.districts[i].covered = FALSE
                      /\ after.districts[i].name = dists[i].name

\* a discovery in flight over a session that holds a district and a point
\* whose status is no longer pending
C10_Witness ==
    /\ \E t \in pending : t.kind = "city"
    /\ \E i \in DOMAIN businesses : businesses[i].status # "pending"
    /\ districts # << >>

-----------------------------------------------------------------------------
\* Identity and status of the points (SpecRoute).

\* C11: the ids of the points and of the districts are pairwise distinct.
C11_IdsDistinct ==
    /\ \A i \in DOMAIN businesses : \A j \in DOMAIN businesses :
          businesses[i].id = businesses[j].id => i = j
    /\ \A i \in DOMAIN districts : \A j \in DOMAIN districts :
          districts[i].id = districts[j].id => i = j
    /\ \A i \in DOMAIN businesses : \A j \in DOMAIN districts :
          businesses[i].id # districts[j].id

\* C12: no step moves the status of an id that is success or failure back to
\* pending.
C12_StatusNeverBackToPending ==
    [][\A i \in DOMAIN businesses : \A j \in DOMAIN businesses' :
          (businesses[i].status # "pending" /\ businesses'[j].id = businesses[i].id)
              => businesses'[j].status # "pending"]_vars

\* C13: goToLocation called while currentLocation is unknown moves mapCenter
\* to the target and issues no call; activeNavigation, isNavigating,
\* followUser, trackingPath, isLoading, the points and the districts are as
\* before.
C13_NoOriginOnlyMovesFocus ==
    ~IsSome(currentLocation) =>
        \A item \in Items(State) :
            LET after == goToLocation(State, item)
            IN  /\ after.mapCenter = Some(Loc(item.lat, item.lng))
                /\ after.pending = pending
                /\ after.activeNavigation = activeNavigation
                /\ after.isNavigating = isNavigating
                /\ after.followUser = followUser
                /\ after.trackingPath = trackingPath
                /\ after.isLoading = isLoading
                /\ after.businesses = businesses
                /\ after.districts = districts
                /\ after.currentLocation = currentLocation

\* the position is unknown and the map is centred on a listed point or
\* district: goToLocation has moved it there
C13_Witness ==
    /\ ~IsSome(currentLocation)
    /\ \E item \in Items(State) :
          /\ IsSome(item.id)
          /\ mapCenter = Some(Loc(item.lat, item.lng))
    /\ \A t \in pending : t.kind # "route"

\* the answers of the routing call that give no route
RouteFailures == { RouteError, RouteNone }

\* C14: a routing call that is rejected or finds no path leaves
\* activeNavigation, mapCenter, isNavigating, followUser and the rest of the
\* session as they are, issues no call of its own, and a later goToLocation of
\* the same target issues a new routing call.
C14_FailedRouteKeepsSession ==
    \A t \in { x \in pending : x.kind = "route" } :
        \A resp \in RouteFailures : \A ts \in Instants(State) :
            LET after == routeResponse(State, t, resp, ts)
                again == goToLocation(after, Get(t.item))
            IN  /\ after.activeNavigation = activeNavigation
                /\ after.mapCenter = mapCenter
                /\ after.isNavigating = isNavigating
                /\ after.followUser = followUser
                /\ after.trackingPath = trackingPath
                /\ after.businesses = businesses
                /\ after.districts = districts
                /\ after.currentLocation = currentLocation
                /\ after.pending = pending \ { t }
                /\ \E u \in again.pending \ after.pending :
                      u.kind = "route" /\ u.item = t.item

\* a routing call in flight while a route is active
C14_Witness ==
    /\ IsSome(activeNavigation)
    /\ \E t \in pending :
          t.kind = "route" /\ Get(t.item) # Get(activeNavigation).target

\* C15: activeNavigation is set only by the answer to the latest route
\* request, and only if no clearRoute or stop of the tracking came after that
\* request: the answer to a superseded or cancelled request is ignored.
C15_LateRouteIgnored ==
    [][(activeNavigation' # activeNavigation /\ IsSome(activeNavigation')) =>
          \E t \in pending \ pending' :
              t.kind = "route" /\ t.route = hist.routeGen]_vars

-----------------------------------------------------------------------------
\* Properties of the tracking toggle and of the track (SpecTrack).

\* C16: stopping and then starting the tracking leaves trackingPath empty and
\* the points and districts as they were; the tracking can be started with no
\* active route, and then too trackingPath is empty.
C16_StopStartResetsTrack ==
    /\ isNavigating =>
          LET stopped == toggleNavigation(State)
              started == toggleNavigation(stopped)
          IN  /\ ~stopped.isNavigating
              /\ started.isNavigating
              /\ started.trackingPath = << >>
              /\ started.businesses = businesses
              /\ started.districts = districts
    /\ (~isNavigating /\ ~IsSome(activeNavigation)) =>
          LET started == toggleNavigation(State)
          IN  /\ started.isNavigating
              /\ started.trackingPath = << >>
              /\ ~IsSome(started.activeNavigation)

\* the tracking is on over a recorded track and a discovered point
C16_Witness ==
    /\ isNavigating
    /\ trackingPath # << >>
    /\ businesses # << >>

\* C17: stopping the tracking leaves trackingPath as it is.
C17_StopKeepsTrack ==
    isNavigating => toggleNavigation(State).trackingPath = trackingPath

\* C18: while the tracking stays on, every step leaves the trackingPath it
\* found as a prefix of the new one.
C18_TrackAppendOnly ==
    [][(isNavigating /\ isNavigating') =>
          /\ Len(trackingPath') >= Len(trackingPath)
          /\ SubSeq(trackingPath', 1, Len(trackingPath)) = trackingPath]_vars

\* the tracking is on and two points have been recorded
C18_Witness ==
    /\ isNavigating
    /\ Len(trackingPath) >= 2

\* two samples that are within the displacement threshold of each other
Near(a, b) == Abs(a.lat - b.lat) <= 50 /\ Abs(a.lng - b.lng) <= 50

\* C19: in the second component, with the tracking on and nothing recorded
\* yet, two location updates within the displacement threshold of each other
\* record exactly one point, the first sample.
C19_NearSamplesRecordFirst ==
    (variant = 2 /\ isNavigating /\ trackingPath = << >>) =>
        \A a \in LocSamples : \A b \in LocSamples :
            Near(a, b) =>
                \A ts \in Instants(State) :
                    LET first == handleLocationUpdate(State, a, ts)
                        second == handleLocationUpdate(first, b, ts)
                    IN  second.trackingPath = << TrackPoint(ts, a) >>

-----------------------------------------------------------------------------
\* Properties of the navigation HUD (SpecRoute).

\* C20: the close and 'Sair' buttons of the HUD leave no active route and
\* follow mode off, and leave trackingPath, isNavigating, the points and the
\* districts as they are.
C20_ClearRouteKeepsTrack ==
    IsSome(activeNavigation) =>
        LET after == clearRoute(State)
        IN  /\ ~IsSome(after.activeNavigation)
            /\ ~after.followUser
            /\ after.trackingPath = trackingPath
            /\ after.isNavigating = isNavigating
            /\ after.businesses = businesses
            /\ after.districts = districts
            /\ after.currentLocation = currentLocation
            /\ after.mapCenter = mapCenter
            /\ after.pending = pending

\* a route is active with follow mode and tracking on and a point recorded
C20_Witness ==
    /\ IsSome(activeNavigation)
    /\ followUser
    /\ isNavigating
    /\ trackingPath # << >>
    /\ businesses # << >>

-----------------------------------------------------------------------------
\* Frame of the points (SpecPoints).

\* C21: handleStatusUpdate(id, status) changes the status of the points with
\* that id and nothing else: the other fields of those points, every other
\* point, the districts, the route, the tracking, the track, the position and
\* the map focus are as before.
C21_StatusUpdateFrame ==
    \A id \in Ids : \A status \in { "success", "failure" } :
        LET after == handleStatusUpdate(State, id, status)
        IN  /\ DOMAIN after.businesses = DOMAIN businesses
            /\ \A i \in DOMAIN businesses :
                  /\ businesses[i].id # id => after.businesses[i] = businesses[i]
                  /\ [after.businesses[i] EXCEPT !.status = businesses[i].status]
                         = businesses[i]
            /\ [after EXCEPT !.businesses = businesses] = State

\* two points with different ids, one of them marked, beside a district, an
\* active route and a known position
C21_Witness ==
    /\ \E i \in DOMAIN businesses : \E j \in DOMAIN businesses :
          /\ businesses[i].id # businesses[j].id
          /\ businesses[i].status # "pending"
          /\ businesses[j].status = "pending"
    /\ districts # << >>
    /\ IsSome(activeNavigation)
    /\ IsSome(currentLocation)

\* C22: a step changes the points only by applying a discovery answer or by
\* handleStatusUpdate: location updates, goToLocation and its answer, the
\* tracking toggle and the HUD buttons leave them as they are.
C22_PointsChangedOnlyByDiscoveryOrStatus ==
    [][businesses' # businesses =>
          \/ hist'.applied = hist.applied + 1
          \/ /\ hist'.ops = hist.ops + 1
             /\ \E id \in Ids : \E status \in { "success", "failure" } :
                   businesses' = handleStatusUpdate(State, id, status).businesses]_vars

\* points are listed, one of them marked, after a location update, a
\* goToLocation and its answer have set a route and turned the tracking on
C22_Witness ==
    /\ \E i \in DOMAIN businesses : businesses[i].status # "pending"
    /\ IsSome(activeNavigation)
    /\ isNavigating
    /\ followUser

-----------------------------------------------------------------------------
\* Properties of searchCache (SpecSearch).

\* C23: an entry of searchCache is never removed and never replaced by another
\* value.
C23_CacheEntriesStable ==
    [][\A k \in DOMAIN searchCache :
          k \in DOMAIN searchCache' /\ searchCache'[k] = searchCache[k]]_vars

\* the answers of the geocode call that are failures: rejected, not JSON, or
\* JSON without coordinates
GeoFailures == { GeoError, GeoGarbage, GeoEmpty, GeoNoFields }

\* the answers of the discovery call that are failures: rejected or not JSON
CityFailures == { CityError, CityGarbage }

\* C24: a failed geocode or discovery call writes nothing to searchCache, and
\* a search or a discovery whose key is not in searchCache issues an external
\* call.
C24_FailuresNotCached ==
    /\ \A t \in { x \in pending : x.kind = "geo" } : \A resp \in GeoFailures :
          geoResponse(State, t, resp, NoDraw).searchCache = searchCache
    /\ \A t \in { x \in pending : x.kind = "city" } : \A resp \in CityFailures :
          cityResponse(State, t, resp, NoDraw).searchCache = searchCache
    /\ \A q \in { << "s" >>, << " ", "S" >>, << "r" >> } :
          ~Has(searchCache, GeoKey(Trim(q))) =>
              \E t \in performCitySearch(State, q, NoDraw).pending \ pending :
                  t.kind = "geo" /\ Trim(t.query) = Trim(q)
    /\ \A geo \in { GeoA, GeoB, GeoC } :
          ~Has(searchCache, CityKey(Get(geo.lat), Get(geo.lng))) =>
              \E t \in fetchCityData(State, Get(geo.lat), Get(geo.lng), LocalPlace,
                                     NoSearch, NoDraw).pending \ pending :
                  t.kind = "city" /\ t.lat = Get(geo.lat) /\ t.lng = Get(geo.lng)

\* in the second component a discovery key was called, is not stored, and is
\* being called again, and a search key is stored
C24_Witness ==
    /\ variant = 2
    /\ \E t \in pending :
          /\ t.kind = "city"
          /\ Count(hist.cityCalls, CityKey(t.lat, t.lng)) >= 2
          /\ ~Has(searchCache, CityKey(t.lat, t.lng))
          /\ Has(searchCache, GeoKey(t.placeName))
    /\ Cardinality(pending) = 1

\* C26: a geocode answer that carries lat and lng, 0 included, moves
\* mapCenter to that coordinate and starts a discovery there.
C26_ZeroCoordinateResolves ==
    \A t \in { x \in pending : x.kind = "geo" } :
        \A resp \in { GeoA, GeoZeroLat } :
            \A draw \in CachedDraws(State, Get(resp.lat), Get(resp.lng)) :
                LET after == geoResponse(State, t, resp, draw)
                    key == CityKey(Get(resp.lat), Get(resp.lng))
                IN  /\ after.mapCenter = Some(Loc(Get(resp.lat), Get(resp.lng)))
                    /\ Count(after.hist.discovers, key) = Count(hist.discovers, key) + 1

\* two queries that differ only in letter case and in leading or trailing
\* white space
SameQuery(q1, q2) == ToLowerCase(Trim(q1)) = ToLowerCase(Trim(q2))

\* C25: in the second component, once a search of q has stored its
\* coordinates and a discovery answer with both arrays for them, a search of
\* any q2 that differs from q only in case or surrounding white space issues
\* no geocode call and no discovery call, moves mapCenter to the stored
\* coordinates and applies the stored answer.
C25_NormalisedQueryServedFromCache ==
    variant = 2 =>
        \A q \in { << "s" >>, << " ", "S" >> } : \A q2 \in { << "s" >>, << " ", "S" >> } :
            (SameQuery(q, q2) /\ Has(searchCache, GeoKey(Trim(q)))) =>
                LET geo == searchCache[GeoKey(Trim(q))]
                    key == CityKey(Get(geo.lat), Get(geo.lng))
                IN  (Has(searchCache, key)
                     /\ IsSome(searchCache[key].bars)
                     /\ IsSome(searchCache[key].districts)) =>
                        \A draw \in DrawsOf(searchCache[key]) :
                            LET after == performCitySearch(State, q2, draw)
                            IN  /\ after.pending = pending
                                /\ after.hist.geoCalls = hist.geoCalls
                                /\ after.hist.cityCalls = hist.cityCalls
                                /\ after.mapCenter =
                                       Some(Loc(Get(geo.lat), Get(geo.lng)))
                                /\ after.businesses =
                                       MapBars(Get(searchCache[key].bars), draw.bars)
                                /\ after.districts =
                                       MapDistricts(Get(searchCache[key].districts),
                                                    draw.dists)
                                /\ after.cityName =
                                       OrElse(searchCache[key].cityName, Trim(q2))

\* two searches were made with one geocode call and one discovery call for
\* the place, and the second search has written the city data
C25_Witness ==
    /\ variant = 2
    /\ hist.lastSearch = 2
    /\ hist.geoCalls = 1
    /\ hist.writer.city = 2
    /\ \E k \in DOMAIN searchCache : k[1] = "city" /\ Count(hist.cityCalls, k) = 1
    /\ \A t \in pending : t.search = 0
    /\ businesses # << >>

-----------------------------------------------------------------------------
\* Texts of the route (SpecRoute).

\* the routing answers that carry a route
RouteAnswers == { r \in RouteResponses : r.kind = "route" }

\* C27: a routing answer with distance d metres and duration s seconds,
\* processed for a pending goToLocation, gives an activeNavigation whose
\* distance is the tenth of a kilometre nearest to d with unit km, whose time
\* is the minute nearest to s with unit min, and whose target is the item
\* goToLocation was called with; 1200 m and 300 s give 1.2 km and 5 min.
C27_RouteTexts ==
    \A t \in { x \in pending : x.kind = "route" } : \A ts \in Instants(State) :
        /\ \A resp \in RouteAnswers :
              LET after == routeResponse(State, t, resp, ts)
                  nav == Get(after.activeNavigation)
                  tenths == 10 * nav.distance.km + nav.distance.tenth
              IN  /\ IsSome(after.activeNavigation)
                  /\ nav.target = Get(t.item)
                  /\ nav.distance.tenth \in 0 .. 9
                  /\ nav.distance.unit = "km"
                  /\ 100 * tenths - 50 <= resp.distance
                  /\ resp.distance < 100 * tenths + 50
                  /\ nav.time.unit = "min"
                  /\ 60 * nav.time.min - 30 <= resp.duration
                  /\ resp.duration < 60 * nav.time.min + 30
        /\ LET nav == Get(routeResponse(State, t, RouteJson(1200, 300), ts).activeNavigation)
           IN  /\ nav.distance = [km |-> 1, tenth |-> 2, unit |-> "km"]
               /\ nav.time = [min |-> 5, unit |-> "min"]

\* a route of 1260 m and 330 s was processed: 1.3 km and 6 min to its item
C27_Witness ==
    /\ IsSome(activeNavigation)
    /\ Get(activeNavigation).distance = [km |-> 1, tenth |-> 3, unit |-> "km"]
    /\ Get(activeNavigation).time = [min |-> 6, unit |-> "min"]
    /\ Get(activeNavigation).target \in Items(State)

\* C28, at the response: in the second component the arrival time of the
\* route is the instant read while the answer is processed plus the duration
\* of the answer.
C28_ArrivalAtResponse ==
    variant = 2 =>
        \A t \in { x \in pending : x.kind = "route" } : \A ts \in Instants(State) :
            \A resp \in RouteAnswers :
                LET after == routeResponse(State, t, resp, ts)
                    ms == ts + 1000 * resp.duration
                IN  /\ after.now = ts
                    /\ Get(after.activeNavigation).arrivalTime =
                           Some([hour |-> 0, minute |-> ms \div 60000])

\* C28, afterwards: a step that processes no routing answer and leaves a
\* route active leaves its arrival time as it was.
C28_ArrivalKept ==
    (variant = 2 /\ IsSome(activeNavigation) /\ IsSome(activeNavigation')
     /\ { x \in pending : x.kind = "route" } \subseteq pending')
        => Get(activeNavigation').arrivalTime = Get(activeNavigation).arrivalTime

\* C28: the arrival time of the route is the clock at the moment the routing
\* answer is processed plus its duration, and it is not recomputed while the
\* route stays: clock advances and location updates leave it unchanged.
C28_ArrivalFixedAtResponse ==
    []C28_ArrivalAtResponse /\ [][C28_ArrivalKept]_vars

\* a route of 330 s processed at the instant 0 arrives in minute 5, and the
\* clock has since been read again by a location update
C28_Witness ==
    /\ variant = 2
    /\ IsSome(activeNavigation)
    /\ Get(activeNavigation).time.min = 6
    /\ Get(activeNavigation).arrivalTime = Some([hour |-> 0, minute |-> 5])
    /\ now = 30000
    /\ IsSome(currentLocation)
    /\ Get(currentLocation) = Loc(60, 0)

-----------------------------------------------------------------------------
\* Heading and location stream (SpecTrack).

\* C29: a location update that finds a previous location sets the heading to
\* the direction from the previous location to the new one, however near the
\* two are, and the points of the track carry a timestamp and a location only.
C29_HeadingOnEveryUpdate ==
    IsSome(currentLocation) =>
        \A loc \in LocSamples : \A ts \in Instants(State) :
            LET after == handleLocationUpdate(State, loc, ts)
                prev == Get(currentLocation)
            IN  /\ after.carRotation = Atan2Deg(loc.lng - prev.lng, loc.lat - prev.lat)
                /\ \A i \in DOMAIN after.trackingPath :
                      DOMAIN after.trackingPath[i] = { "timestamp", "location" }

\* C30: while the tracking is off the session holds no subscription to the
\* location stream and no sample of the stream is handed to it.
C30_ReleasedWhenTrackingOff ==
    ~isNavigating => (~Subscribed /\ ~Delivers)

-----------------------------------------------------------------------------
\* The one-shot position request (SpecRoute).

\* C31: the error callback of a pending position request leaves
\* currentLocation, mapCenter, the points, the districts, the route, the
\* tracking flag and the track as they were, issues no discovery and no other
\* call, and clears isDetecting; a search made next still issues its geocode
\* call or is served from the cache.
C31_FailedLocateAbsorbed ==
    \A t \in { x \in pending : x.kind = "locate" } :
        LET after == locateResponse(State, t, FALSE, Loc(0, 0), NoDraw)
        IN  /\ after.currentLocation = currentLocation
            /\ after.mapCenter = mapCenter
            /\ after.businesses = businesses
            /\ after.districts = districts
            /\ after.activeNavigation = activeNavigation
            /\ after.isNavigating = isNavigating
            /\ after.trackingPath = trackingPath
            /\ after.cityName = cityName
            /\ after.searchCache = searchCache
            /\ after.hist.discovers = hist.discovers
            /\ after.hist.cityCalls = hist.cityCalls
            /\ after.pending = pending \ { t }
            /\ ~after.isDetecting
            /\ \A draw \in SearchDraws(after, << "s" >>) :
                  LET next == performCitySearch(after, << "s" >>, draw)
                  IN  \/ \E g \in next.pending \ after.pending : g.kind = "geo"
                      \/ next.hist.discovers # after.hist.discovers

\* a position request is pending while a position is known, points are listed
\* and a route is active
C31_Witness ==
    /\ \E t \in pending : t.kind = "locate"
    /\ isDetecting
    /\ IsSome(currentLocation)
    /\ businesses # << >>
    /\ IsSome(activeNavigation)

-----------------------------------------------------------------------------
\* Empty discovery answers in the cache (SpecSearch).

\* a stored discovery answer whose two arrays are empty
EmptyPayload(r) == r.bars = Some(<< >>) /\ r.districts = Some(<< >>)

\* the places a discovery is made for
Places ==
    { INITIAL_COORDS, Loc(0, 0) }
    \cup { Loc(Get(g.lat), Get(g.lng)) : g \in { GeoA, GeoB, GeoC } }

C32_StoresEmpty ==
    variant = 2 =>
        \A t \in { x \in pending : x.kind = "city" } :
            /\ LET after == cityResponse(State, t, CityEmpty, NoDraw)
               IN  /\ Has(after.searchCache, CityKey(t.lat, t.lng))
                   /\ EmptyPayload(after.searchCache[CityKey(t.lat, t.lng)])
                   /\ after.businesses = << >>
                   /\ after.districts = << >>
            /\ \A resp \in { CityNoBars, CityNoDistricts } : \A draw \in DrawsOf(resp) :
                  LET after == cityResponse(State, t, resp, draw)
                  IN  /\ Has(after.searchCache, CityKey(t.lat, t.lng))
                      /\ after.searchCache[CityKey(t.lat, t.lng)] = resp

\* C32, serving: a discovery for a place whose key holds an answer with empty
\* arrays issues no call and leaves no points and no districts.
C32_ServesEmpty ==
    variant = 2 =>
        \A p \in Places :
            (Has(searchCache, CityKey(p.lat, p.lng))
             /\ EmptyPayload(searchCache[CityKey(p.lat, p.lng)])) =>
                LET after == fetchCityData(State, p.lat, p.lng, LocalPlace, NoSearch, NoDraw)
                IN  /\ after.pending = pending
                    /\ after.hist.cityCalls = hist.cityCalls
                    /\ after.businesses = << >>
                    /\ after.districts = << >>
                    /\ after.searchCache = searchCache

\* C32, keeping: a stored answer with empty arrays changes only in a step that
\* processes the answer of a discovery call for the same key.
C32_EmptyKept ==
    \A k \in DOMAIN searchCache :
        (k[1] = "city" /\ EmptyPayload(searchCache[k])
         /\ { x \in pending : x.kind = "city" /\ CityKey(x.lat, x.lng) = k } \subseteq pending')
            => (Has(searchCache', k) /\ searchCache'[k] = searchCache[k])

-----------------------------------------------------------------------------
\* Follow mode, route and tracking flag (SpecRoute).

\* C33: in the second component followUser is true only while a route is
\* active.
C33_FollowImpliesRoute ==
    variant = 2 => (followUser => IsSome(activeNavigation))

\* a route switched follow mode on and was then closed from the HUD: follow
\* mode is off again while the tracking stays on
C33_Witness ==
    /\ variant = 2
    /\ ~followUser
    /\ ~IsSome(activeNavigation)
    /\ isNavigating
    /\ hist.routeGen >= 2
    /\ hist.ops = MaxOps

\* C34, the states: in the second component a route is active only while the
\* tracking is on.
C34_RouteWhileTracking ==
    variant = 2 => (IsSome(activeNavigation) => isNavigating)

\* C34, the steps: a route is set only by a step that processes a routing
\* answer, and that step leaves the tracking on; the tracking is switched off
\* only by a step that leaves no route.
C34_RouteAndTrackingSteps ==
    variant = 2 =>
        /\ (IsSome(activeNavigation') /\ activeNavigation' # activeNavigation)
              => (isNavigating'
                  /\ \E t \in pending \ pending' : t.kind = "route")
        /\ (isNavigating /\ ~isNavigating') => ~IsSome(activeNavigation')

\* C34: in the second component an active route implies that the tracking is
\* on: a processed routing answer sets the route together with the tracking
\* flag, stopping the tracking clears the route, and no other step sets a
\* route or switches the tracking off.
C34_RouteImpliesTracking ==
    []C34_RouteWhileTracking /\ [][C34_RouteAndTrackingSteps]_vars

\* the tracking was stopped with a route active, which left no route
C34_Witness ==
    /\ variant = 2
    /\ ~isNavigating
    /\ ~IsSome(activeNavigation)
    /\ ~followUser
    /\ hist.routeGen >= 2
    /\ IsSome(currentLocation)
    /\ \A t \in pending : t.kind # "route"

\* C35: a step that switches the tracking flag from off to on leaves the
\* track empty, whether it is a start of the tracking or a processed routing
\* answer.
C35_FreshTrackOnEnable ==
    [][(~isNavigating /\ isNavigating') => trackingPath' = << >>]_vars

\* C36: while a geocode, discovery or routing call is in flight, isLoading is
\* true.
C36_LoadingCoversCalls ==
    (\E t \in pending : t.kind \in { "geo", "city", "route" }) => isLoading

-----------------------------------------------------------------------------
\* Track of the first component (SpecTrack).

\* C37: in the first component the track is empty whenever the tracking is
\* off.
C37_NoTrackWhileOff ==
    variant = 1 => (~isNavigating => trackingPath = << >>)

\* the first component recorded a sample at the instant 30000 while tracking,
\* and the tracking was then stopped
C37_Witness ==
    /\ variant = 1
    /\ ~isNavigating
    /\ now = 30000
    /\ IsSome(currentLocation)
    /\ trackingPath = << >>

====
